---- MODULE Spec2Model ----
(***************************************************************************)
(* Model of the ModelSync versioning engine                                *)
(* (modelsync/core/versioning.py, modelsync/utils/helpers.py,              *)
(* modelsync/config.py): the working tree, the control directory           *)
(* .modelsync (config, HEAD, index, refs/heads, objects, logs/history.log) *)
(* and the operations init, add, commit, status and log of ModelSyncRepo.  *)
(*                                                                         *)
(* Encoding of values.                                                     *)
(*   - Python None is the empty tuple; a hash-valued string is a tuple     *)
(*     whose first element is its length in characters: "" is <<0>>, a     *)
(*     SHA-256 hex digest of the bytes b is <<64, b>> (the digest is       *)
(*     modelled symbolically: equal digests iff equal bytes).              *)
(*   - bytes are pairs <<encoding, payload>>; a file that does not exist   *)
(*     is the empty tuple.                                                 *)
(*   - a Python dict whose keys are fixed by the code is a record; a dict  *)
(*     whose keys are data (index["files"]) is a sequence of <<key,value>> *)
(*     pairs in insertion order, as Python keeps it.                       *)
(***************************************************************************)
EXTENDS Integers, Sequences, FiniteSets, TLC

VARIABLES
    wt,              \* working tree: absolute path -> file state
    config,          \* .modelsync/config
    HEAD,            \* .modelsync/HEAD
    index,           \* .modelsync/index
    heads,           \* .modelsync/refs/heads/<branch>
    objects,         \* .modelsync/objects/<h[:2]>/<h[2:]> : hash -> bytes
    journal,         \* .modelsync/logs/history.log, one entry per line
    DEFAULT_CONFIG,  \* the process-wide dict of modelsync.config
    now,             \* the clock read by datetime.now() and kept in st_mtime;
                     \* it advances with every edit of the working tree
    ret,             \* the last call: the operation and the value it returned
    calls            \* the calls in progress, one frame per process: the
                     \* operation, the position in its code and its locals

vars == <<wt, config, HEAD, index, heads, objects, journal, DEFAULT_CONFIG, now, ret, calls>>

disk == <<config, HEAD, index, heads, objects, journal>>

-----------------------------------------------------------------------------
(* Bounds of the model *)

MaxCommits == 1      \* successful commits per behaviour of Spec
MaxChain   == 2      \* successful commits per behaviour of SpecChain
MaxAddLen  == 2      \* length of the path list handed to add
MaxWrites  == 1      \* edits of the working tree (ticks of the clock) per behaviour

-----------------------------------------------------------------------------
(* Values *)

None     == <<>>
EmptyStr == <<0>>
NoFile   == <<>>

HASH_HEX_LEN == 64

Truthy(s) == s # None /\ s # EmptyStr

StrLen(s) == s[1]

\* a or b, on plain strings
OrStr(a, b) == IF a # "" THEN a ELSE b

-----------------------------------------------------------------------------
(* The working tree.  The repository root is /repo; a path handed to the   *)
(* repository is either relative to the root or absolute.                  *)

AbsPaths == {"/repo/a.txt", "/repo/c.bin", "/repo/data"}

\* the paths handed to add: both spellings of the tracked file
Paths    == {"a.txt", "/repo/a.txt"}

\* the texts a file may hold: two for a.txt, one for c.bin
ContentsOf(p) == IF p = "/repo/a.txt" THEN {<<1>>, <<2>>} ELSE {<<1>>}

\* the files the user writes and deletes
Editable == {"/repo/a.txt"}

\* the files the directory may hold when the repository object is made
InitialTrees == {{"/repo/c.bin"}, {"/repo/a.txt", "/repo/c.bin"}}

UserNames == {"Ann"}
Authors   == {""}
Messages  == {"first"}

\* self.path / file_path : joining an absolute path yields that path
FullPath(p) ==
    CASE p = "a.txt" -> "/repo/a.txt"
      [] p = "c.bin" -> "/repo/c.bin"
      [] p = "data"  -> "/repo/data"
      [] OTHER       -> p

\* Path(p).name
PathName(p) ==
    CASE FullPath(p) = "/repo/a.txt" -> "a.txt"
      [] FullPath(p) = "/repo/data"  -> "data"
      [] OTHER                       -> "c.bin"

\* Path(p).suffix.lower()
PathSuffix(p) ==
    CASE FullPath(p) = "/repo/a.txt" -> ".txt"
      [] FullPath(p) = "/repo/data"  -> ""
      [] OTHER                       -> ".bin"

\* position of a key in Python's string order ('/' sorts before letters)
KeyRank(p) ==
    CASE p = "/repo/a.txt" -> 1
      [] p = "/repo/c.bin" -> 2
      [] p = "/repo/data"  -> 3
      [] p = "a.txt"       -> 4
      [] p = "c.bin"       -> 5
      [] OTHER             -> 6

NoEntry == [kind |-> "none"]

\* the processes that use the repository, and the frame of one that is
\* not inside a call
Procs == {1, 2}

Idle == [op |-> "idle"]

Exists(p) == wt[FullPath(p)].kind # "none"

-----------------------------------------------------------------------------
(* Ordered dicts: sequences of <<key, value>> pairs with distinct keys *)

DictKeys(d) == [i \in 1..Len(d) |-> d[i][1]]

HasKey(d, k) == \E i \in 1..Len(d) : d[i][1] = k

DictGet(d, k) == d[CHOOSE i \in 1..Len(d) : d[i][1] = k][2]

\* mutant of DictSet: the dict is replaced by the one entry
DictSet_Replace(d, k, v) == <<<<k, v>>>>

\* d[k] = v : an existing key keeps its position, a new key goes last
DictSet(d, k, v) ==
    IF HasKey(d, k)
    THEN [i \in 1..Len(d) |-> IF d[i][1] = k THEN <<k, v>> ELSE d[i]]
    ELSE Append(d, <<k, v>>)

\* the pairs of d in the order json.dumps(sort_keys=True) writes them
SortKeys(d) ==
    [i \in 1..Len(d) |->
        d[CHOOSE j \in 1..Len(d) :
            Cardinality({k \in 1..Len(d) : KeyRank(d[k][1]) < KeyRank(d[j][1])}) = i - 1]]

SeqToSet(s) == {s[i] : i \in 1..Len(s)}

\* the sequences that enumerate the set S once each
Enumerations(S) ==
    {s \in [1..Cardinality(S) -> S] : \A x \in S : \E i \in 1..Cardinality(S) : s[i] = x}

-----------------------------------------------------------------------------
(* helpers.py *)

calculate_content_hash(content) == <<HASH_HEX_LEN, content>>

calculate_file_hash(p) ==
    IF wt[FullPath(p)].kind = "file"
    THEN <<HASH_HEX_LEN, <<"raw", wt[FullPath(p)].content>>>>
    ELSE EmptyStr

\* stat.st_size: the length of a file, the size the file system gives a
\* directory
StatSize(entry) == IF entry.kind = "dir" THEN entry.size ELSE Len(entry.content)

get_file_info(p) ==
    [path     |-> FullPath(p),
     name     |-> PathName(p),
     size     |-> StatSize(wt[FullPath(p)]),
     modified |-> wt[FullPath(p)].mtime,
     hash     |-> calculate_file_hash(p),
     is_file  |-> wt[FullPath(p)].kind = "file",
     is_dir   |-> wt[FullPath(p)].kind = "dir"]

\* json.dump(data, f, indent=2, ensure_ascii=False): keys in insertion order
write_json_file(data) == <<"json-indent2", data>>

\* json.load of a file; {} when the file is missing or does not parse
read_json_file(file) == IF file = NoFile \/ file[1] # "json-indent2" THEN <<>> ELSE file[2]

\* json.dumps(data, sort_keys=True).encode()
json_dumps_sorted(data) == <<"json-sorted", data>>

SUPPORTED_SUFFIXES ==
    {".py", ".ipynb", ".json", ".yaml", ".yml", ".txt", ".md",
     ".pkl", ".joblib", ".h5", ".hdf5", ".pb", ".onnx", ".pt", ".pth",
     ".csv", ".tsv", ".parquet", ".feather", ".npy", ".npz"}

\* the set of paths rglob yields that pass the filter; rglob's order is
\* that of the directory listing, so a caller sees some enumeration of it
get_tracked_files ==
    {p \in AbsPaths : wt[p].kind = "file" /\ PathSuffix(p) \in SUPPORTED_SUFFIXES}

-----------------------------------------------------------------------------
(* config.py *)

InitialDefaultConfig == [user |-> [name |-> "", email |-> ""]]

\* DEFAULT_CONFIG.copy(): the file is never parsed
get_config == DEFAULT_CONFIG

EmailOf(name) == IF name = "" THEN "" ELSE "user@x.io"

-----------------------------------------------------------------------------
(* ModelSyncRepo: queries *)

\* mutant of is_initialized: it looks for a file init never creates
is_initialized_Never == FALSE

is_initialized == config # NoFile

_get_current_branch ==
    IF HEAD # NoFile /\ HEAD[2] = "ref: refs/heads/main" THEN "main" ELSE "None"

\* mutant of _get_branch_head: the reference file is never found
_get_branch_head_Missing(branch) == None

_get_branch_head(branch) ==
    IF heads[branch] = NoFile THEN None ELSE heads[branch][2]

\* d.get(key), for a dict the code reads from JSON
DictGetOr(d, key, default) == IF key \in DOMAIN d THEN d[key] ELSE default

\* index.get("files", {})
IndexFiles(idx) == DictGetOr(idx, "files", <<>>)

\* mutant of NothingStaged: the emptiness check is missing
NothingStaged_Never(idx) == FALSE

\* not index.get("files")
NothingStaged(idx) == IndexFiles(idx) = <<>>

\* mutant of ClearedIndex: the index is written back as it was
ClearedIndex_Keeps(idx) == idx

\* index["files"] = {}
ClearedIndex(idx) == [idx EXCEPT !.files = <<>>]

\* mutant of LogWalk: the object file is read without the test that it
\* exists, so a missing object yields the {} of read_json_file
RECURSIVE LogWalk_NoExistsCheck(_, _, _)
LogWalk_NoExistsCheck(objs, h, fuel) ==
    IF ~Truthy(h) \/ fuel = 0 THEN <<>>
    ELSE LET commit_data == IF h \in DOMAIN objs THEN read_json_file(objs[h]) ELSE <<>>
         IN  <<commit_data>>
                \o LogWalk_NoExistsCheck(objs, DictGetOr(commit_data, "parent", None), fuel - 1)

\* mutant of LogWalk: the walk stops after the head commit
LogWalk_HeadOnly(objs, h, fuel) ==
    IF Truthy(h) /\ h \in DOMAIN objs THEN <<read_json_file(objs[h])>> ELSE <<>>

\* the loop of log(): follow parent from h while the object exists.  The
\* loop has no bound of its own; fuel cuts the evaluation off after more
\* iterations than there are objects, which only a cyclic chain needs.
RECURSIVE LogWalk(_, _, _)
LogWalk(objs, h, fuel) ==
    IF ~Truthy(h) \/ fuel = 0 THEN <<>>
    ELSE IF h \in DOMAIN objs
         THEN LET commit_data == read_json_file(objs[h])
              IN  <<commit_data>> \o LogWalk(objs, DictGetOr(commit_data, "parent", None), fuel - 1)
         ELSE <<>>

LogFuel == Cardinality(DOMAIN objects) + 1

log ==
    IF ~is_initialized THEN <<>>
    ELSE IF _get_current_branch = "None" THEN <<>>
    ELSE LogWalk(objects, _get_branch_head(_get_current_branch), LogFuel)

\* mutant of status: entries whose file is gone are not reported
status_HidesDeleted(tracked_files) ==
    IF ~is_initialized THEN [error |-> "Not a ModelSync repository"]
    ELSE
    LET staged_files == IndexFiles(read_json_file(index))
        IsModified(file_path) ==
            IF HasKey(staged_files, file_path)
            THEN get_file_info(file_path).hash # DictGet(staged_files, file_path).hash
            ELSE TRUE
        StillThere(entry) == Exists(entry[1])
    IN  [branch         |-> _get_current_branch,
         staged_files   |-> DictKeys(SelectSeq(staged_files, StillThere)),
         modified_files |-> SelectSeq(tracked_files, IsModified),
         total_tracked  |-> Len(tracked_files),
         total_staged   |-> Len(SelectSeq(staged_files, StillThere))]

\* mutant of status: the check of is_initialized is missing
status_Unguarded(tracked_files) ==
    LET staged_files == IndexFiles(read_json_file(index))
        IsModified(file_path) ==
            IF HasKey(staged_files, file_path)
            THEN get_file_info(file_path).hash # DictGet(staged_files, file_path).hash
            ELSE TRUE
    IN  [branch         |-> _get_current_branch,
         staged_files   |-> DictKeys(staged_files),
         modified_files |-> SelectSeq(tracked_files, IsModified),
         total_tracked  |-> Len(tracked_files),
         total_staged   |-> Len(staged_files)]

\* status() when rglob lists the tracked files in the order tracked_files
status(tracked_files) ==
    IF ~is_initialized THEN [error |-> "Not a ModelSync repository"]
    ELSE
    LET staged_files == IndexFiles(read_json_file(index))
        IsModified(file_path) ==
            IF HasKey(staged_files, file_path)
            THEN get_file_info(file_path).hash # DictGet(staged_files, file_path).hash
            ELSE TRUE
    IN  [branch         |-> _get_current_branch,
         staged_files   |-> DictKeys(staged_files),
         modified_files |-> SelectSeq(tracked_files, IsModified),
         total_tracked  |-> Len(tracked_files),
         total_staged   |-> Len(staged_files)]

-----------------------------------------------------------------------------
(* ModelSyncRepo: operations *)

\* mutant of WithHash: the hash field keeps its placeholder
WithHash_Placeholder(commit_data, commit_hash) == commit_data

\* commit_data["hash"] = commit_hash
WithHash(commit_data, commit_hash) == [commit_data EXCEPT !.hash = commit_hash]

\* mutant of StoreObject: the object file is not written
StoreObject_Drop(objs, h, data) == objs

\* write_json_file(str(self.path / OBJECTS_DIR / h[:2] / h[2:]), data): the
\* file under the hash is created, or overwritten when it exists
StoreObject(objs, h, data) == (h :> write_json_file(data)) @@ objs

Init ==
    /\ wt \in {[p \in AbsPaths |-> IF p \in present
                                    THEN [kind |-> "file", content |-> <<1>>, mtime |-> 0]
                                    ELSE NoEntry] : present \in InitialTrees}
    /\ config = NoFile
    /\ HEAD = NoFile
    /\ index = NoFile
    /\ heads = [b \in {"main"} |-> NoFile]
    /\ objects = <<>>
    /\ journal = <<>>
    /\ DEFAULT_CONFIG = InitialDefaultConfig
    /\ now = 0
    /\ ret = [op |-> "new", val |-> <<>>]
    /\ calls = [p \in Procs |-> Idle]

\* mutant of InitialCommitData: the root's parent is "" instead of None
InitialCommitData_EmptyParent ==
    [tree      |-> EmptyStr,
     parent    |-> EmptyStr,
     author    |-> [name |-> "ModelSync", email |-> "modelsync@local", timestamp |-> now],
     committer |-> [name |-> "ModelSync", email |-> "modelsync@local", timestamp |-> now],
     message   |-> "Initial commit",
     hash      |-> EmptyStr]

\* mutant of InitialCommitData: another message
InitialCommitData_Message ==
    [tree      |-> EmptyStr,
     parent    |-> None,
     author    |-> [name |-> "ModelSync", email |-> "modelsync@local", timestamp |-> now],
     committer |-> [name |-> "ModelSync", email |-> "modelsync@local", timestamp |-> now],
     message   |-> "Repository initialized",
     hash      |-> EmptyStr]

\* _create_initial_commit: the commit dict before its hash is filled in
InitialCommitData ==
    [tree      |-> EmptyStr,
     parent    |-> None,
     author    |-> [name |-> "ModelSync", email |-> "modelsync@local", timestamp |-> now],
     committer |-> [name |-> "ModelSync", email |-> "modelsync@local", timestamp |-> now],
     message   |-> "Initial commit",
     hash      |-> EmptyStr]

\* _create_initial_files: user.name / user.email are assigned into the
\* dict shared with DEFAULT_CONFIG (dict.copy() is shallow)
InitConfig(user_name, user_email) ==
    [user |-> [name  |-> IF user_name # "" THEN user_name ELSE DEFAULT_CONFIG.user.name,
               email |-> IF user_email # "" THEN user_email ELSE DEFAULT_CONFIG.user.email]]

init(user_name, user_email) ==
    IF is_initialized
    THEN /\ ret' = [op |-> "init", val |-> FALSE]
         /\ UNCHANGED <<wt, calls, disk, DEFAULT_CONFIG, now>>
    ELSE LET cfg         == InitConfig(user_name, user_email)
             commit_hash == calculate_content_hash(json_dumps_sorted(InitialCommitData))
             commit_data == WithHash(InitialCommitData, commit_hash)
         IN  /\ DEFAULT_CONFIG' = cfg
             /\ config' = write_json_file(cfg)
             /\ HEAD' = <<"text", "ref: refs/heads/main">>
             /\ index' = write_json_file([files |-> <<>>])
             /\ journal' = Append(journal,
                    [timestamp |-> now, action |-> "init",
                     message |-> "Repository initialized",
                     user |-> OrStr(user_name, "Unknown")])
             /\ objects' = StoreObject(objects, commit_hash, commit_data)
             /\ heads' = [heads EXCEPT !["main"] = <<"text", commit_hash>>]
             /\ ret' = [op |-> "init", val |-> TRUE]
             /\ UNCHANGED <<wt, calls, now>>

\* mutant of AddLoop: the first missing path ends the batch
RECURSIVE AddLoop_StopAtMissing(_, _, _, _)
AddLoop_StopAtMissing(file_paths, i, files, added) ==
    IF i > Len(file_paths) \/ ~Exists(file_paths[i]) THEN <<files, added>>
    ELSE LET file_info == get_file_info(file_paths[i])
         IN  AddLoop_StopAtMissing(file_paths, i + 1,
                                   DictSet(files, file_paths[i], file_info),
                                   DictSet(added, file_paths[i], file_info))

\* the loop of add(): the pair <<index["files"], added_files>> after the
\* paths file_paths[i..] have been processed
RECURSIVE AddLoop(_, _, _, _)
AddLoop(file_paths, i, files, added) ==
    IF i > Len(file_paths) THEN <<files, added>>
    ELSE LET file_path == file_paths[i]
         IN  IF ~Exists(file_path)
             THEN AddLoop(file_paths, i + 1, files, added)
             ELSE LET file_info == get_file_info(file_path)
                  IN  AddLoop(file_paths, i + 1,
                              DictSet(files, file_path, file_info),
                              DictSet(added, file_path, file_info))

add(file_paths) ==
    IF ~is_initialized
    THEN /\ ret' = [op |-> "add", val |-> <<>>]
         /\ UNCHANGED <<wt, calls, disk, DEFAULT_CONFIG, now>>
    ELSE LET idx == read_json_file(index)
             res == AddLoop(file_paths, 1, IndexFiles(idx), <<>>)
         IN  IF "files" \notin DOMAIN idx /\ \E i \in 1..Len(file_paths) : Exists(file_paths[i])
             THEN \* index["files"][file_path] = file_info raises KeyError
                  \* at the first path that exists; nothing is written
                  /\ ret' = [op |-> "add", raised |-> "KeyError"]
                  /\ UNCHANGED <<wt, calls, disk, DEFAULT_CONFIG, now>>
             ELSE /\ index' = write_json_file(IF "files" \in DOMAIN idx
                                               THEN [idx EXCEPT !.files = res[1]]
                                               ELSE idx)
                  /\ ret' = [op |-> "add", val |-> res[2]]
                  /\ UNCHANGED <<wt, calls, config, HEAD, heads, objects, journal,
                                 DEFAULT_CONFIG, now>>

\* mutant of TreeHash: the hash is taken over the dump in insertion order
TreeHash_Unsorted(files) == calculate_content_hash(json_dumps_sorted([files |-> files]))

\* _create_tree_object: the hash is taken over the key-sorted dump, the
\* file holds the indented dump in insertion order
TreeHash(files) == calculate_content_hash(json_dumps_sorted([files |-> SortKeys(files)]))

\* mutant of CommitData: the tree hash is recorded as the parent
CommitData_TreeAsParent(tree_hash, parent_hash, message, author_name, author_email) ==
    LET cfg == get_config
        who == [name      |-> OrStr(author_name, OrStr(cfg.user.name, "Unknown")),
                email     |-> OrStr(author_email, OrStr(cfg.user.email, "unknown@local")),
                timestamp |-> now]
    IN  [tree      |-> tree_hash,
         parent    |-> tree_hash,
         author    |-> who,
         committer |-> who,
         message   |-> message,
         hash      |-> EmptyStr]

\* mutant of CommitData: the parent is not recorded
CommitData_NoParent(tree_hash, parent_hash, message, author_name, author_email) ==
    LET cfg == get_config
        who == [name      |-> OrStr(author_name, OrStr(cfg.user.name, "Unknown")),
                email     |-> OrStr(author_email, OrStr(cfg.user.email, "unknown@local")),
                timestamp |-> now]
    IN  [tree      |-> tree_hash,
         parent    |-> None,
         author    |-> who,
         committer |-> who,
         message   |-> message,
         hash      |-> EmptyStr]

CommitData(tree_hash, parent_hash, message, author_name, author_email) ==
    LET cfg == get_config
        who == [name      |-> OrStr(author_name, OrStr(cfg.user.name, "Unknown")),
                email     |-> OrStr(author_email, OrStr(cfg.user.email, "unknown@local")),
                timestamp |-> now]
    IN  [tree      |-> tree_hash,
         parent    |-> parent_hash,
         author    |-> who,
         committer |-> who,
         message   |-> message,
         hash      |-> EmptyStr]

NumCommits == Cardinality({i \in 1..Len(journal) : journal[i].action = "commit"})

commit(message, author_name, author_email) ==
    LET current_branch == _get_current_branch
        idx == read_json_file(index)
    IN
    IF ~is_initialized \/ current_branch = "None" \/ NothingStaged(idx)
    THEN /\ ret' = [op |-> "commit", val |-> None]
         /\ UNCHANGED <<wt, calls, disk, DEFAULT_CONFIG, now>>
    ELSE LET tree_hash   == TreeHash(idx.files)
             parent_hash == _get_branch_head(current_branch)
             data0       == CommitData(tree_hash, parent_hash, message, author_name, author_email)
             commit_hash == calculate_content_hash(json_dumps_sorted(data0))
             commit_data == WithHash(data0, commit_hash)
             cleared     == ClearedIndex(idx)
         IN  /\ objects' = StoreObject(StoreObject(objects, tree_hash, [files |-> idx.files]),
                                        commit_hash, commit_data)
             /\ heads' = [heads EXCEPT ![current_branch] = <<"text", commit_hash>>]
             /\ index' = write_json_file(cleared)
             /\ journal' = Append(journal,
                    [timestamp   |-> now, action |-> "commit", message |-> message,
                     commit_hash |-> commit_hash,
                     files_count |-> Len(cleared.files),
                     user        |-> OrStr(author_name, OrStr(get_config.user.name, "Unknown"))])
             /\ ret' = [op |-> "commit", val |-> commit_hash]
             /\ UNCHANGED <<wt, calls, config, HEAD, DEFAULT_CONFIG, now>>

Status ==
    \E tracked_files \in Enumerations(get_tracked_files) :
        /\ ret' = [op |-> "status", val |-> status(tracked_files)]
        /\ UNCHANGED <<wt, calls, disk, DEFAULT_CONFIG, now>>

\* mutant of Log: the call is recorded in the journal
Log_WritesJournal ==
    /\ ret' = [op |-> "log", val |-> log]
    /\ journal' = Append(journal, [timestamp |-> now, action |-> "log"])
    /\ UNCHANGED <<wt, calls, config, HEAD, index, heads, objects, DEFAULT_CONFIG, now>>

Log ==
    /\ ret' = [op |-> "log", val |-> log]
    /\ UNCHANGED <<wt, calls, disk, DEFAULT_CONFIG, now>>

InitRepo == \E user_name \in UserNames : init(user_name, EmailOf(user_name))

\* the path lists handed to add: up to MaxAddLen paths, none twice
PathLists ==
    UNION {{l \in [1..n -> Paths] : \A i, j \in 1..n : l[i] = l[j] => i = j} : n \in 1..MaxAddLen}

AddPaths == \E file_paths \in PathLists : add(file_paths)

\* a commit that would exceed the model's bound on the chain is not taken
CommitUpTo(max) ==
    \E message \in Messages, author_name \in Authors :
        /\ commit(message, author_name, EmailOf(author_name))
        /\ NumCommits' <= max

Commit == CommitUpTo(MaxCommits)

-----------------------------------------------------------------------------
(* The environment: the user edits the working tree; every edit advances   *)
(* the clock                                                               *)

Write(p, c) ==
    /\ now < MaxWrites
    /\ now' = now + 1
    /\ wt' = [wt EXCEPT ![p] = [kind |-> "file", content |-> c, mtime |-> now']]
    /\ ret' = [op |-> "env", val |-> <<>>]
    /\ UNCHANGED <<disk, DEFAULT_CONFIG, calls>>

Delete(p) ==
    /\ wt[p].kind # "none"
    /\ now < MaxWrites
    /\ now' = now + 1
    /\ wt' = [wt EXCEPT ![p] = NoEntry]
    /\ ret' = [op |-> "env", val |-> <<>>]
    /\ UNCHANGED <<disk, DEFAULT_CONFIG, calls>>

WriteFile == \E p \in Editable : \E c \in ContentsOf(p) : Write(p, c)

DeleteFile == \E p \in Editable : Delete(p)

Next ==
    \/ InitRepo
    \/ AddPaths
    \/ Commit
    \/ Status
    \/ Log
    \/ WriteFile
    \/ DeleteFile

Spec == Init /\ [][Next]_vars

-----------------------------------------------------------------------------
(* A longer commit chain over one path: the tracked file is rewritten,     *)
(* staged under its relative path and committed up to MaxChain times       *)

AddTracked == add(<<"a.txt">>)

CommitChain == CommitUpTo(MaxChain)

WriteTracked == \E c \in ContentsOf("/repo/a.txt") : Write("/repo/a.txt", c)

NextChain ==
    \/ InitRepo
    \/ AddTracked
    \/ CommitChain
    \/ Status
    \/ Log
    \/ WriteTracked

SpecChain == Init /\ [][NextChain]_vars

-----------------------------------------------------------------------------
(* Batches over two files: every list handed to add names a.txt, which may *)
(* be absent, and c.bin, which is always there.  The two files hold the    *)
(* same bytes unless a.txt is deleted, so two commits may seal the same    *)
(* records, staged in either order                                         *)

BatchPaths == {"a.txt", "c.bin"}

\* the lists of up to MaxAddLen paths that name both files
BatchLists ==
    UNION {{l \in [1..n -> BatchPaths] : BatchPaths \subseteq SeqToSet(l)} : n \in 1..MaxAddLen}

AddBatch == \E file_paths \in BatchLists : add(file_paths)

NextStore ==
    \/ InitRepo
    \/ AddBatch
    \/ CommitChain
    \/ Status
    \/ Log
    \/ DeleteFile

SpecStore == Init /\ [][NextStore]_vars

-----------------------------------------------------------------------------
(* Identities: init is given a name or none, commit an author or none, and *)
(* the repository may be used from a process other than the one that ran   *)
(* init, in which modelsync.config is imported afresh                      *)

IdentNames   == {"", "Ann"}
IdentAuthors == {"", "Bob"}

NewProcess ==
    /\ DEFAULT_CONFIG' = InitialDefaultConfig
    /\ ret' = [op |-> "new", val |-> <<>>]
    /\ UNCHANGED <<wt, calls, disk, now>>

InitIdent == \E user_name \in IdentNames : init(user_name, EmailOf(user_name))

CommitIdent ==
    \E message \in Messages, author_name \in IdentAuthors :
        /\ commit(message, author_name, EmailOf(author_name))
        /\ NumCommits' <= MaxCommits

NextIdent ==
    \/ InitIdent
    \/ AddTracked
    \/ CommitIdent
    \/ NewProcess
    \/ Log
    \/ WriteTracked

SpecIdent == Init /\ [][NextIdent]_vars

-----------------------------------------------------------------------------
(* Dangling references: object files are removed from outside the program  *)
(* while the chain of commits grows                                        *)

DeleteObject(h) ==
    /\ objects' = [k \in DOMAIN objects \ {h} |-> objects[k]]
    /\ ret' = [op |-> "env", val |-> <<>>]
    /\ UNCHANGED <<wt, calls, config, HEAD, index, heads, journal, DEFAULT_CONFIG, now>>

RemoveObject == \E h \in DOMAIN objects : DeleteObject(h)

NextDangling ==
    \/ InitRepo
    \/ AddTracked
    \/ CommitChain
    \/ WriteTracked
    \/ Log
    \/ RemoveObject

SpecDangling == Init /\ [][NextDangling]_vars

-----------------------------------------------------------------------------
(* A damaged index: the index file of an initialized repository is removed *)
(* or overwritten with text that is not JSON                               *)

DamagedIndexFiles == {NoFile, <<"text", "{not json">>}

DamageIndex ==
    /\ is_initialized
    /\ index' \in DamagedIndexFiles
    /\ ret' = [op |-> "env", val |-> <<>>]
    /\ UNCHANGED <<wt, calls, config, HEAD, heads, objects, journal, DEFAULT_CONFIG, now>>

NextDamaged ==
    \/ InitRepo
    \/ AddPaths
    \/ Commit
    \/ Status
    \/ Log
    \/ DeleteFile
    \/ DamageIndex

SpecDamaged == Init /\ [][NextDamaged]_vars

-----------------------------------------------------------------------------
(* Staging from several processes: adds of one path at a time, under       *)
(* either spelling of the tracked file, edits and commits, with the        *)
(* process changing in between                                             *)

StageLists == {<<p>> : p \in Paths}

AddOne == \E file_paths \in StageLists : add(file_paths)

NextStage ==
    \/ InitRepo
    \/ AddOne
    \/ Commit
    \/ WriteFile
    \/ NewProcess

SpecStage == Init /\ [][NextStage]_vars

-----------------------------------------------------------------------------
(* One process, several repositories: before or after it works on this     *)
(* repository the process runs init on another one, whose files are        *)
(* elsewhere; what this repository sees of it is the process-wide          *)
(* DEFAULT_CONFIG                                                          *)

InitElsewhere ==
    \E user_name \in IdentNames :
        /\ DEFAULT_CONFIG' = InitConfig(user_name, EmailOf(user_name))
        /\ ret' = [op |-> "elsewhere", val |-> TRUE]
        /\ UNCHANGED <<wt, calls, disk, now>>

NextShared ==
    \/ InitElsewhere
    \/ InitIdent
    \/ AddTracked
    \/ CommitIdent
    \/ NewProcess
    \/ Log

SpecShared == Init /\ [][NextShared]_vars

-----------------------------------------------------------------------------
(* Calls in steps.  A call of process p is a frame calls[p] that moves     *)
(* through the reads and writes of files in the order of the code, one     *)
(* file access per step, so that the calls of two processes interleave and *)
(* a call can stop between two accesses.  The frame keeps the locals of    *)
(* the call; pc names the access it performs next.                         *)

\* the positions at which a call is over: it returned, its process was
\* killed, or an exception ended it
Ended == {"returned", "killed", "failed"}

InFlight(p) == calls[p].op # "idle" /\ calls[p].pc \notin Ended

Quiet == \A p \in Procs : ~InFlight(p)

\* the message each process commits with
MessageOf(p) == IF p = 1 THEN "first" ELSE "second"

\* commit, lines 132-140: is_initialized() and _get_current_branch()
commit_begin(p, message, author_name) ==
    /\ calls[p] = Idle
    /\ LET refused == ~is_initialized \/ _get_current_branch = "None"
           frame   == [op             |-> "commit",
                       pc             |-> IF refused THEN "returned" ELSE "read_index",
                       val            |-> None,
                       message        |-> message,
                       author_name    |-> author_name,
                       current_branch |-> _get_current_branch,
                       index          |-> <<>>,
                       tree_hash      |-> None,
                       commit_data    |-> <<>>]
       IN  /\ calls' = [calls EXCEPT ![p] = frame]
           /\ ret' = IF refused THEN [op |-> "commit", val |-> None]
                                ELSE [op |-> "step", val |-> <<>>]
    /\ UNCHANGED <<wt, disk, DEFAULT_CONFIG, now>>

\* commit, lines 143-146: the index is read; nothing staged ends the call
commit_read_index(p) ==
    /\ calls[p].op = "commit" /\ calls[p].pc = "read_index"
    /\ LET idx == read_json_file(index)
       IN  IF NothingStaged(idx)
           THEN /\ calls' = [calls EXCEPT ![p].pc = "returned"]
                /\ ret' = [op |-> "commit", val |-> None]
           ELSE /\ calls' = [calls EXCEPT ![p].pc = "write_tree", ![p].index = idx]
                /\ ret' = [op |-> "step", val |-> <<>>]
    /\ UNCHANGED <<wt, disk, DEFAULT_CONFIG, now>>

\* commit, line 149, and _create_tree_object: the tree object is written
commit_write_tree(p) ==
    /\ calls[p].op = "commit" /\ calls[p].pc = "write_tree"
    /\ LET files     == calls[p].index.files
           tree_hash == TreeHash(files)
       IN  /\ objects' = StoreObject(objects, tree_hash, [files |-> files])
           /\ calls' = [calls EXCEPT ![p].pc = "read_parent", ![p].tree_hash = tree_hash]
    /\ ret' = [op |-> "step", val |-> <<>>]
    /\ UNCHANGED <<wt, config, HEAD, index, heads, journal, DEFAULT_CONFIG, now>>

\* commit, lines 152-174: the branch reference is read and the commit
\* dict is built and hashed
commit_read_parent(p) ==
    /\ calls[p].op = "commit" /\ calls[p].pc = "read_parent"
    /\ LET parent_hash == _get_branch_head(calls[p].current_branch)
           data0       == CommitData(calls[p].tree_hash, parent_hash, calls[p].message,
                                     calls[p].author_name, EmailOf(calls[p].author_name))
           commit_hash == calculate_content_hash(json_dumps_sorted(data0))
       IN  calls' = [calls EXCEPT ![p].pc = "write_commit",
                                  ![p].commit_data = WithHash(data0, commit_hash)]
    /\ ret' = [op |-> "step", val |-> <<>>]
    /\ UNCHANGED <<wt, disk, DEFAULT_CONFIG, now>>

\* commit, lines 177-179: the commit object is written
commit_write_commit(p) ==
    /\ calls[p].op = "commit" /\ calls[p].pc = "write_commit"
    /\ objects' = StoreObject(objects, calls[p].commit_data.hash, calls[p].commit_data)
    /\ calls' = [calls EXCEPT ![p].pc = "write_ref"]
    /\ ret' = [op |-> "step", val |-> <<>>]
    /\ UNCHANGED <<wt, config, HEAD, index, heads, journal, DEFAULT_CONFIG, now>>

\* mutant of commit_write_ref: the branch reference is not written
commit_write_ref_Skipped(p) ==
    /\ calls[p].op = "commit" /\ calls[p].pc = "write_ref"
    /\ calls' = [calls EXCEPT ![p].pc = "write_index"]
    /\ ret' = [op |-> "step", val |-> <<>>]
    /\ UNCHANGED <<wt, disk, DEFAULT_CONFIG, now>>

\* commit, lines 182-183: the branch reference is written, seen as one
\* file access
commit_write_ref(p) ==
    /\ calls[p].op = "commit" /\ calls[p].pc = "write_ref"
    /\ heads' = [heads EXCEPT ![calls[p].current_branch] = <<"text", calls[p].commit_data.hash>>]
    /\ calls' = [calls EXCEPT ![p].pc = "write_index"]
    /\ ret' = [op |-> "step", val |-> <<>>]
    /\ UNCHANGED <<wt, config, HEAD, index, objects, journal, DEFAULT_CONFIG, now>>

\* commit, line 182, seen as a file access of its own: the reference
\* file is opened for writing, which empties it
commit_open_ref(p) ==
    /\ calls[p].op = "commit" /\ calls[p].pc = "write_ref"
    /\ heads' = [heads EXCEPT ![calls[p].current_branch] = <<"text", EmptyStr>>]
    /\ calls' = [calls EXCEPT ![p].pc = "flush_ref"]
    /\ ret' = [op |-> "step", val |-> <<>>]
    /\ UNCHANGED <<wt, config, HEAD, index, objects, journal, DEFAULT_CONFIG, now>>

\* commit, line 183: the hash is written and the file closed
commit_flush_ref(p) ==
    /\ calls[p].op = "commit" /\ calls[p].pc = "flush_ref"
    /\ heads' = [heads EXCEPT ![calls[p].current_branch] = <<"text", calls[p].commit_data.hash>>]
    /\ calls' = [calls EXCEPT ![p].pc = "write_index"]
    /\ ret' = [op |-> "step", val |-> <<>>]
    /\ UNCHANGED <<wt, config, HEAD, index, objects, journal, DEFAULT_CONFIG, now>>

\* commit, lines 186-187: the index read at the start is written back
\* with files = {}
commit_write_index(p) ==
    /\ calls[p].op = "commit" /\ calls[p].pc = "write_index"
    /\ index' = write_json_file(ClearedIndex(calls[p].index))
    /\ calls' = [calls EXCEPT ![p].pc = "write_journal", ![p].index = ClearedIndex(calls[p].index)]
    /\ ret' = [op |-> "step", val |-> <<>>]
    /\ UNCHANGED <<wt, config, HEAD, heads, objects, journal, DEFAULT_CONFIG, now>>

\* commit, lines 190-202: the journal entry is appended and the hash
\* returned
commit_write_journal(p) ==
    /\ calls[p].op = "commit" /\ calls[p].pc = "write_journal"
    /\ journal' = Append(journal,
           [timestamp   |-> now, action |-> "commit", message |-> calls[p].message,
            commit_hash |-> calls[p].commit_data.hash,
            files_count |-> Len(calls[p].index.files),
            user        |-> OrStr(calls[p].author_name, OrStr(get_config.user.name, "Unknown"))])
    /\ calls' = [calls EXCEPT ![p].pc = "returned", ![p].val = calls[p].commit_data.hash]
    /\ ret' = [op |-> "commit", val |-> calls[p].commit_data.hash]
    /\ UNCHANGED <<wt, config, HEAD, index, heads, objects, DEFAULT_CONFIG, now>>

\* the calls made one at a time, while no call is in progress
QuietInit == Quiet /\ InitRepo

QuietAdd == Quiet /\ AddTracked

QuietWrite == Quiet /\ WriteTracked

QuietLog == Quiet /\ Log

-----------------------------------------------------------------------------
(* Two writers: each process commits once, with its own message, and the   *)
(* steps of the two commits interleave                                     *)

CommitBegin == \E p \in Procs : commit_begin(p, MessageOf(p), "")

CommitReadIndex == \E p \in Procs : commit_read_index(p)

CommitWriteTree == \E p \in Procs : commit_write_tree(p)

CommitReadParent == \E p \in Procs : commit_read_parent(p)

CommitWriteCommit == \E p \in Procs : commit_write_commit(p)

CommitWriteRef == \E p \in Procs : commit_write_ref(p)

CommitWriteIndex == \E p \in Procs : commit_write_index(p)

CommitWriteJournal == \E p \in Procs : commit_write_journal(p)

NextRace ==
    \/ QuietInit
    \/ QuietAdd
    \/ QuietWrite
    \/ QuietLog
    \/ CommitBegin
    \/ CommitReadIndex
    \/ CommitWriteTree
    \/ CommitReadParent
    \/ CommitWriteCommit
    \/ CommitWriteRef
    \/ CommitWriteIndex
    \/ CommitWriteJournal

SpecRace == Init /\ [][NextRace]_vars

-----------------------------------------------------------------------------
(* An interrupted commit: one process commits in steps and may be killed   *)
(* between any two of them; before and after, calls run one at a time      *)

Writer == 1

\* the process is killed inside commit: the frame stops where it is
Interrupt(p) ==
    /\ calls[p].op = "commit"
    /\ InFlight(p)
    /\ calls' = [calls EXCEPT ![p].pc = "killed"]
    /\ ret' = [op |-> "env", val |-> <<>>]
    /\ UNCHANGED <<wt, disk, DEFAULT_CONFIG, now>>

QuietCommit == Quiet /\ Commit

NextCrash ==
    \/ QuietInit
    \/ QuietAdd
    \/ QuietWrite
    \/ QuietCommit
    \/ commit_begin(Writer, MessageOf(2), "")
    \/ commit_read_index(Writer)
    \/ commit_write_tree(Writer)
    \/ commit_read_parent(Writer)
    \/ commit_write_commit(Writer)
    \/ commit_open_ref(Writer)
    \/ commit_flush_ref(Writer)
    \/ commit_write_index(Writer)
    \/ commit_write_journal(Writer)
    \/ Interrupt(Writer)

SpecCrash == Init /\ [][NextCrash]_vars

-----------------------------------------------------------------------------
(* init in steps: one file write per step, and an exception may end the    *)
(* call before any of them (init catches it and returns False)             *)

\* init, lines 27-34: is_initialized(), then the directories are created
init_begin(p, user_name, user_email) ==
    /\ calls[p] = Idle
    /\ LET frame == [op          |-> "init",
                     pc          |-> IF is_initialized THEN "returned" ELSE "make_config",
                     val         |-> FALSE,
                     user_name   |-> user_name,
                     user_email  |-> user_email,
                     config      |-> <<>>,
                     commit_hash |-> None]
       IN  /\ calls' = [calls EXCEPT ![p] = frame]
           /\ ret' = IF is_initialized THEN [op |-> "init", val |-> FALSE]
                                       ELSE [op |-> "step", val |-> <<>>]
    /\ UNCHANGED <<wt, disk, DEFAULT_CONFIG, now>>

\* _create_initial_files, lines 51-55: the identity is assigned into the
\* dict shared with DEFAULT_CONFIG
init_make_config(p) ==
    /\ calls[p].op = "init" /\ calls[p].pc = "make_config"
    /\ LET cfg == InitConfig(calls[p].user_name, calls[p].user_email)
       IN  /\ DEFAULT_CONFIG' = cfg
           /\ calls' = [calls EXCEPT ![p].pc = "write_config", ![p].config = cfg]
    /\ ret' = [op |-> "step", val |-> <<>>]
    /\ UNCHANGED <<wt, disk, now>>

\* _create_initial_files, line 57
init_write_config(p) ==
    /\ calls[p].op = "init" /\ calls[p].pc = "write_config"
    /\ config' = write_json_file(calls[p].config)
    /\ calls' = [calls EXCEPT ![p].pc = "write_head"]
    /\ ret' = [op |-> "step", val |-> <<>>]
    /\ UNCHANGED <<wt, HEAD, index, heads, objects, journal, DEFAULT_CONFIG, now>>

\* _create_initial_files, lines 60-61
init_write_head(p) ==
    /\ calls[p].op = "init" /\ calls[p].pc = "write_head"
    /\ HEAD' = <<"text", "ref: refs/heads/main">>
    /\ calls' = [calls EXCEPT ![p].pc = "write_index"]
    /\ ret' = [op |-> "step", val |-> <<>>]
    /\ UNCHANGED <<wt, config, index, heads, objects, journal, DEFAULT_CONFIG, now>>

\* _create_initial_files, line 64
init_write_index(p) ==
    /\ calls[p].op = "init" /\ calls[p].pc = "write_index"
    /\ index' = write_json_file([files |-> <<>>])
    /\ calls' = [calls EXCEPT ![p].pc = "write_journal"]
    /\ ret' = [op |-> "step", val |-> <<>>]
    /\ UNCHANGED <<wt, config, HEAD, heads, objects, journal, DEFAULT_CONFIG, now>>

\* _create_initial_files, lines 67-73
init_write_journal(p) ==
    /\ calls[p].op = "init" /\ calls[p].pc = "write_journal"
    /\ journal' = Append(journal,
           [timestamp |-> now, action |-> "init",
            message |-> "Repository initialized",
            user |-> OrStr(calls[p].user_name, "Unknown")])
    /\ calls' = [calls EXCEPT ![p].pc = "write_commit"]
    /\ ret' = [op |-> "step", val |-> <<>>]
    /\ UNCHANGED <<wt, config, HEAD, index, heads, objects, DEFAULT_CONFIG, now>>

\* _create_initial_commit, lines 77-100
init_write_commit(p) ==
    /\ calls[p].op = "init" /\ calls[p].pc = "write_commit"
    /\ LET commit_hash == calculate_content_hash(json_dumps_sorted(InitialCommitData))
           commit_data == WithHash(InitialCommitData, commit_hash)
       IN  /\ objects' = StoreObject(objects, commit_hash, commit_data)
           /\ calls' = [calls EXCEPT ![p].pc = "write_ref", ![p].commit_hash = commit_hash]
    /\ ret' = [op |-> "step", val |-> <<>>]
    /\ UNCHANGED <<wt, config, HEAD, index, heads, journal, DEFAULT_CONFIG, now>>

\* _create_initial_commit, lines 103-104, and init, lines 42-43
init_write_ref(p) ==
    /\ calls[p].op = "init" /\ calls[p].pc = "write_ref"
    /\ heads' = [heads EXCEPT !["main"] = <<"text", calls[p].commit_hash>>]
    /\ calls' = [calls EXCEPT ![p].pc = "returned", ![p].val = TRUE]
    /\ ret' = [op |-> "init", val |-> TRUE]
    /\ UNCHANGED <<wt, config, HEAD, index, objects, journal, DEFAULT_CONFIG, now>>

\* init, lines 45-47: the access the call was about to make raises; the
\* exception is caught and init returns False
init_fail(p) ==
    /\ calls[p].op = "init"
    /\ InFlight(p)
    /\ calls' = [calls EXCEPT ![p].pc = "failed"]
    /\ ret' = [op |-> "init", val |-> FALSE]
    /\ UNCHANGED <<wt, disk, DEFAULT_CONFIG, now>>

InitBegin ==
    /\ Quiet
    /\ \E p \in Procs, user_name \in UserNames :
           init_begin(p, user_name, EmailOf(user_name))
InitMakeConfig   == \E p \in Procs : init_make_config(p)
InitWriteConfig  == \E p \in Procs : init_write_config(p)
InitWriteHead    == \E p \in Procs : init_write_head(p)
InitWriteIndex   == \E p \in Procs : init_write_index(p)
InitWriteJournal == \E p \in Procs : init_write_journal(p)
InitWriteCommit  == \E p \in Procs : init_write_commit(p)
InitWriteRef     == \E p \in Procs : init_write_ref(p)
InitFail         == \E p \in Procs : init_fail(p)

NextInitFail ==
    \/ InitBegin
    \/ InitMakeConfig
    \/ InitWriteConfig
    \/ InitWriteHead
    \/ InitWriteIndex
    \/ InitWriteJournal
    \/ InitWriteCommit
    \/ InitWriteRef
    \/ InitFail
    \/ QuietAdd
    \/ QuietCommit
    \/ QuietLog

SpecInitFail == Init /\ [][NextInitFail]_vars

-----------------------------------------------------------------------------
(* A directory in the working tree: the user makes /repo/data and hands    *)
(* its path to add, alone or with the tracked file                         *)

\* st_size of an empty directory, as file systems report it
DirSizes == {64, 4096}

MakeDir(p, size) ==
    /\ wt[p].kind = "none"
    /\ wt' = [wt EXCEPT ![p] = [kind |-> "dir", size |-> size, mtime |-> now]]
    /\ ret' = [op |-> "env", val |-> <<>>]
    /\ UNCHANGED <<disk, DEFAULT_CONFIG, now, calls>>

MakeDirectory == \E size \in DirSizes : MakeDir("/repo/data", size)

DirLists == {<<"data">>, <<"a.txt">>, <<"a.txt", "data">>}

AddDir == \E file_paths \in DirLists : add(file_paths)

NextDir ==
    \/ InitRepo
    \/ MakeDirectory
    \/ AddDir
    \/ Commit
    \/ Status
    \/ Log

SpecDir == Init /\ [][NextDir]_vars

-----------------------------------------------------------------------------
(* add in steps, and an add of one process interleaved with the commit of  *)
(* another                                                                 *)

\* add, lines 108-110: is_initialized()
add_begin(p, file_paths) ==
    /\ calls[p] = Idle
    /\ LET frame == [op         |-> "add",
                     pc         |-> IF is_initialized THEN "read_index" ELSE "returned",
                     val        |-> <<>>,
                     file_paths |-> file_paths,
                     read       |-> <<>>,
                     index      |-> <<>>,
                     added      |-> <<>>]
       IN  /\ calls' = [calls EXCEPT ![p] = frame]
           /\ ret' = IF is_initialized THEN [op |-> "step", val |-> <<>>]
                                       ELSE [op |-> "add", val |-> <<>>]
    /\ UNCHANGED <<wt, disk, DEFAULT_CONFIG, now>>

\* add, line 112: the index is read
add_read_index(p) ==
    /\ calls[p].op = "add" /\ calls[p].pc = "read_index"
    /\ LET idx == read_json_file(index)
       IN  calls' = [calls EXCEPT ![p].pc = "stage", ![p].read = idx, ![p].index = idx]
    /\ ret' = [op |-> "step", val |-> <<>>]
    /\ UNCHANGED <<wt, disk, DEFAULT_CONFIG, now>>

\* add, lines 113-125: the loop over the paths, on the dict in memory
add_stage(p) ==
    /\ calls[p].op = "add" /\ calls[p].pc = "stage"
    /\ LET idx == calls[p].index
           res == AddLoop(calls[p].file_paths, 1, IndexFiles(idx), <<>>)
       IN  IF /\ "files" \notin DOMAIN idx
              /\ \E i \in 1..Len(calls[p].file_paths) : Exists(calls[p].file_paths[i])
           THEN /\ calls' = [calls EXCEPT ![p].pc = "failed"]
                /\ ret' = [op |-> "add", raised |-> "KeyError"]
           ELSE /\ calls' = [calls EXCEPT
                                ![p].pc = "write_index",
                                ![p].index = IF "files" \in DOMAIN idx
                                             THEN [idx EXCEPT !.files = res[1]]
                                             ELSE idx,
                                ![p].added = res[2]]
                /\ ret' = [op |-> "step", val |-> <<>>]
    /\ UNCHANGED <<wt, disk, DEFAULT_CONFIG, now>>

\* mutant of add_write_index: the index is read again and only the added
\* records are put into it
add_write_index_Fresh(p) ==
    /\ calls[p].op = "add" /\ calls[p].pc = "write_index"
    /\ index' = write_json_file([files |-> calls[p].added \o IndexFiles(read_json_file(index))])
    /\ calls' = [calls EXCEPT ![p].pc = "returned", ![p].val = calls[p].added]
    /\ ret' = [op |-> "add", val |-> calls[p].added]
    /\ UNCHANGED <<wt, config, HEAD, heads, objects, journal, DEFAULT_CONFIG, now>>

\* add, lines 127-128: the index is written and added_files returned
add_write_index(p) ==
    /\ calls[p].op = "add" /\ calls[p].pc = "write_index"
    /\ index' = write_json_file(calls[p].index)
    /\ calls' = [calls EXCEPT ![p].pc = "returned", ![p].val = calls[p].added]
    /\ ret' = [op |-> "add", val |-> calls[p].added]
    /\ UNCHANGED <<wt, config, HEAD, heads, objects, journal, DEFAULT_CONFIG, now>>

\* the process that adds while Writer commits, and the path it adds
Adder == 2

AdderPaths == <<"c.bin">>

NextAddRace ==
    \/ QuietInit
    \/ QuietAdd
    \/ commit_begin(Writer, MessageOf(Writer), "")
    \/ commit_read_index(Writer)
    \/ commit_write_tree(Writer)
    \/ commit_read_parent(Writer)
    \/ commit_write_commit(Writer)
    \/ commit_write_ref(Writer)
    \/ commit_write_index(Writer)
    \/ commit_write_journal(Writer)
    \/ add_begin(Adder, AdderPaths)
    \/ add_read_index(Adder)
    \/ add_stage(Adder)
    \/ add_write_index(Adder)

SpecAddRace == Init /\ [][NextAddRace]_vars

-----------------------------------------------------------------------------
(* log in steps, interleaved with a commit whose write of the branch       *)
(* reference is two file accesses                                          *)

\* log, lines 236-241: is_initialized() and _get_current_branch()
log_begin(p) ==
    /\ calls[p] = Idle
    /\ LET refused == ~is_initialized \/ _get_current_branch = "None"
           frame   == [op             |-> "log",
                       pc             |-> IF refused THEN "returned" ELSE "read_head",
                       val            |-> <<>>,
                       current_branch |-> _get_current_branch,
                       commit_hash    |-> None,
                       commits        |-> <<>>]
       IN  /\ calls' = [calls EXCEPT ![p] = frame]
           /\ ret' = IF refused THEN [op |-> "log", val |-> <<>>]
                                ELSE [op |-> "step", val |-> <<>>]
    /\ UNCHANGED <<wt, disk, DEFAULT_CONFIG, now>>

\* log, lines 243-244: the branch reference is read
log_read_head(p) ==
    /\ calls[p].op = "log" /\ calls[p].pc = "read_head"
    /\ calls' = [calls EXCEPT ![p].pc = "walk",
                              ![p].commit_hash = _get_branch_head(calls[p].current_branch)]
    /\ ret' = [op |-> "step", val |-> <<>>]
    /\ UNCHANGED <<wt, disk, DEFAULT_CONFIG, now>>

\* log, lines 246-255: one turn of the loop, or its end
log_walk(p) ==
    /\ calls[p].op = "log" /\ calls[p].pc = "walk"
    /\ IF Truthy(calls[p].commit_hash) /\ calls[p].commit_hash \in DOMAIN objects
       THEN LET commit_data == read_json_file(objects[calls[p].commit_hash])
            IN  /\ calls' = [calls EXCEPT
                                ![p].commits = Append(calls[p].commits, commit_data),
                                ![p].commit_hash = DictGetOr(commit_data, "parent", None)]
                /\ ret' = [op |-> "step", val |-> <<>>]
       ELSE /\ calls' = [calls EXCEPT ![p].pc = "returned", ![p].val = calls[p].commits]
            /\ ret' = [op |-> "log", val |-> calls[p].commits]
    /\ UNCHANGED <<wt, disk, DEFAULT_CONFIG, now>>

\* the process that reads the history while Writer commits
Reader == 2

NextLogRace ==
    \/ QuietInit
    \/ QuietAdd
    \/ QuietWrite
    \/ QuietCommit
    \/ commit_begin(Writer, MessageOf(2), "")
    \/ commit_read_index(Writer)
    \/ commit_write_tree(Writer)
    \/ commit_read_parent(Writer)
    \/ commit_write_commit(Writer)
    \/ commit_open_ref(Writer)
    \/ commit_flush_ref(Writer)
    \/ commit_write_index(Writer)
    \/ commit_write_journal(Writer)
    \/ log_begin(Reader)
    \/ log_read_head(Reader)
    \/ log_walk(Reader)

SpecLogRace == Init /\ [][NextLogRace]_vars

-----------------------------------------------------------------------------
(* Properties.  A call is recognised by ret: every action sets ret.op, so  *)
(* a step with ret'.op = "commit" is a call of commit, and a state with    *)
(* ret.op = "commit" is the state in which that call returned.             *)

IsHexDigest(h) == h # None /\ StrLen(h) = 64 /\ Len(h) = 2

StagedNow == IndexFiles(read_json_file(index))

\* the commit object stored under h
CommitAt(h) == read_json_file(objects[h])

\* the paths of the tree object stored under h
TreeKeys(h) == DictKeys(read_json_file(objects[h]).files)

\* C1: a commit called on an initialized repository with a non-empty
\* Staging Index returns a 64-character hex hash, leaves the branch
\* reference main holding exactly that hash, and stores under it a commit
\* object whose parent is the branch head as it was before the call.
C1_CommitAdvancesHead ==
    [][(ret'.op = "commit" /\ config # NoFile /\ StagedNow # <<>>) =>
          /\ IsHexDigest(ret'.val)
          /\ heads'["main"] = <<"text", ret'.val>>
          /\ ret'.val \in DOMAIN objects'
          /\ read_json_file(objects'[ret'.val]).parent = heads["main"][2]
          /\ read_json_file(objects'[ret'.val]).hash = ret'.val]_vars

\* a commit has returned a hash: the head is that commit, its parent the root
C1_Witness ==
    /\ ret.op = "commit"
    /\ IsHexDigest(ret.val)
    /\ heads["main"] = <<"text", ret.val>>
    /\ Len(log) = 2
    /\ log[1].parent = log[2].hash
    /\ log[2].message = "Initial commit"

\* C2: in the state a successful commit returns in, the Staging Index is
\* empty and status() reports staged_files == [] and total_staged == 0,
\* whatever the committed tree held.
C2_CommitClearsStaging ==
    (ret.op = "commit" /\ ret.val # None) =>
        /\ StagedNow = <<>>
        /\ \A tracked_files \in Enumerations(get_tracked_files) :
              /\ status(tracked_files).staged_files = <<>>
              /\ status(tracked_files).total_staged = 0

\* a commit of two staged entries has returned
C2_Witness ==
    /\ ret.op = "commit"
    /\ ret.val # None
    /\ Len(TreeKeys(CommitAt(ret.val).tree)) = 2
    /\ StagedNow = <<>>

\* C3: a commit called on an initialized repository whose Staging Index is
\* empty returns null and changes nothing: objects, branch reference,
\* index and the rest of the control directory are as before, and log()
\* returns what it returned before.
C3_EmptyCommitIsNoOp ==
    [][(ret'.op = "commit" /\ config # NoFile /\ StagedNow = <<>>) =>
          /\ ret'.val = None
          /\ UNCHANGED <<config, HEAD, index, heads, objects, journal, wt>>
          /\ log' = log]_vars

\* commit was refused in a repository that already holds a commit
C3_Witness ==
    /\ ret.op = "commit"
    /\ ret.val = None
    /\ config # NoFile
    /\ StagedNow = <<>>
    /\ Len(log) = 2

\* C4: once initialized, log() after a successful commit is the new commit
\* followed by the log() from before it, every other step leaves log()
\* unchanged, and log() has one entry more than there were successful
\* commits.
C4_LogGrowsByCommit ==
    /\ [](config # NoFile => Len(log) = NumCommits + 1)
    /\ [][config # NoFile =>
            IF ret'.op = "commit" /\ ret'.val # None
            THEN /\ Len(log') = Len(log) + 1
                 /\ log'[1].hash = ret'.val
                 /\ SubSeq(log', 2, Len(log')) = log
            ELSE log' = log]_vars

\* log() was called after two commits and returned three entries
C4_Witness ==
    /\ ret.op = "log"
    /\ NumCommits = 2
    /\ Len(ret.val) = 3
    /\ ret.val[3].message = "Initial commit"

\* C5: in every state of an initialized repository the walk of log() from
\* the branch head terminates (it never needs more iterations than there
\* are objects) and the last commit it yields has parent null.
C5_LogEndsAtRoot ==
    config # NoFile =>
        /\ Len(log) <= Cardinality(DOMAIN objects)
        /\ Len(log) >= 1
        /\ log[Len(log)].parent = None
        /\ \A i \in 1..(Len(log) - 1) : log[i].parent \in DOMAIN objects

\* a chain of three commits is walked down to the root
C5_Witness ==
    /\ config # NoFile
    /\ Len(log) = 3
    /\ log[3].parent = None
    /\ log[1].parent # None

\* C6: init called on an uninitialized directory returns true and leaves
\* the repository initialized, HEAD selecting main, the index empty, and
\* log() returning exactly one commit, with parent null and message
\* "Initial commit".
C6_InitCreatesRoot ==
    [][(ret'.op = "init" /\ config = NoFile) =>
          /\ ret'.val = TRUE
          /\ config' # NoFile
          /\ HEAD' = <<"text", "ref: refs/heads/main">>
          /\ read_json_file(index') = [files |-> <<>>]
          /\ Len(log') = 1
          /\ log'[1].parent = None
          /\ log'[1].message = "Initial commit"
          /\ heads'["main"] = <<"text", log'[1].hash>>]_vars

\* init has returned true in a directory that already held a file
C6_Witness ==
    /\ ret.op = "init"
    /\ ret.val = TRUE
    /\ wt["/repo/a.txt"].kind = "file"
    /\ Len(log) = 1

\* C7: init called on an initialized repository returns false and leaves
\* config, HEAD, the branch reference, the index, the object store and
\* the journal unchanged.
C7_InitIsIdempotent ==
    [][(ret'.op = "init" /\ config # NoFile) =>
          /\ ret'.val = FALSE
          /\ UNCHANGED <<config, HEAD, index, heads, objects, journal, wt, DEFAULT_CONFIG>>]_vars

\* init was refused after a commit, with an entry staged again
C7_Witness ==
    /\ ret.op = "init"
    /\ ret.val = FALSE
    /\ NumCommits >= 1
    /\ StagedNow # <<>>

\* the working-tree file a listed path names
ListsFile(paths, file) == \E i \in 1..Len(paths) : FullPath(paths[i]) = file

\* C8: in the state add returns in after staging the existing tracked file
\* a.txt under its repository-relative path, status() lists a.txt in
\* staged_files and does not list that file in modified_files.
C8_StagedFileNotModified ==
    (/\ ret.op = "add"
     /\ HasKey(ret.val, "a.txt")
     /\ "/repo/a.txt" \in get_tracked_files) =>
        \A tracked_files \in Enumerations(get_tracked_files) :
            /\ "a.txt" \in SeqToSet(status(tracked_files).staged_files)
            /\ ~ListsFile(status(tracked_files).modified_files, "/repo/a.txt")

\* C9: a staged tracked file whose content differs from the staged snapshot
\* is listed in modified_files and no longer in staged_files, and no path
\* is listed in both staged_files and modified_files of one status().
C9_ModifiedLeavesStaged ==
    config # NoFile =>
        \A tracked_files \in Enumerations(get_tracked_files) :
            /\ \A i \in 1..Len(StagedNow) :
                  (/\ FullPath(StagedNow[i][1]) \in get_tracked_files
                   /\ StagedNow[i][2].hash # calculate_file_hash(StagedNow[i][1])) =>
                      /\ ListsFile(status(tracked_files).modified_files, FullPath(StagedNow[i][1]))
                      /\ StagedNow[i][1] \notin SeqToSet(status(tracked_files).staged_files)
            /\ SeqToSet(status(tracked_files).staged_files)
                  \cap SeqToSet(status(tracked_files).modified_files) = {}

\* C10: every tracked file without an entry in the Staging Index is listed
\* in modified_files, and in the state a successful commit of the single
\* entry a.txt returns in, with a.txt the only tracked file, status()
\* reports modified_files == ["a.txt"] and staged_files == [].
C10_UnstagedListedAsStaged ==
    config # NoFile =>
        \A tracked_files \in Enumerations(get_tracked_files) :
            /\ \A p \in get_tracked_files :
                  ~HasKey(StagedNow, p) => ListsFile(status(tracked_files).modified_files, p)
            /\ (/\ ret.op = "commit"
                /\ ret.val # None
                /\ TreeKeys(CommitAt(ret.val).tree) = <<"a.txt">>
                /\ get_tracked_files = {"/repo/a.txt"}) =>
                   /\ status(tracked_files).modified_files = <<"a.txt">>
                   /\ status(tracked_files).staged_files = <<>>

\* the paths of a list that exist in the working tree
ExistingOf(file_paths) == {p \in SeqToSet(file_paths) : Exists(p)}

\* C11: add on an initialized repository, given a list that names an
\* existing and a possibly missing path in any order, returns records for
\* exactly the existing paths, writes exactly those records into the
\* index, and neither creates nor changes the entry of a missing path.
C11_AddSkipsMissing ==
    [][\A file_paths \in BatchLists :
          (config # NoFile /\ add(file_paths)) =>
              LET before == StagedNow
                  after  == StagedNow'
              IN  /\ SeqToSet(DictKeys(ret'.val)) = ExistingOf(file_paths)
                  /\ SeqToSet(DictKeys(after)) =
                         SeqToSet(DictKeys(before)) \cup ExistingOf(file_paths)
                  /\ \A p \in ExistingOf(file_paths) :
                         /\ DictGet(ret'.val, p) = get_file_info(p)
                         /\ DictGet(after, p) = get_file_info(p)
                  /\ \A p \in SeqToSet(file_paths) \ ExistingOf(file_paths) :
                         /\ HasKey(after, p) <=> HasKey(before, p)
                         /\ HasKey(before, p) => DictGet(after, p) = DictGet(before, p)]_vars

\* add has returned the record of c.bin alone from a list that also named
\* a.txt, which does not exist
C11_Witness ==
    /\ ret.op = "add"
    /\ config # NoFile
    /\ ~Exists("a.txt")
    /\ DictKeys(ret.val) = <<"c.bin">>
    /\ DictGet(StagedNow, "c.bin") = get_file_info("c.bin")

\* C12: every object in the Object Store is named by the content hash of
\* the exact bytes persisted in its file.
C12_ObjectNamedByItsBytes ==
    \A h \in DOMAIN objects : calculate_content_hash(objects[h]) = h

\* the tree objects of the store are those that hold a files map
IsTree(h) == "files" \in DOMAIN read_json_file(objects[h])

\* the path -> content hash mapping of a files map
HashMapping(files) == {<<files[i][1], files[i][2].hash>> : i \in 1..Len(files)}

\* C13: two committed Staging Index snapshots with the same paths and the
\* same content hash per path have the same tree hash, whatever else the
\* staged records hold (such as the modification time).
C13_SameMappingSameTree ==
    \A h1, h2 \in DOMAIN objects :
        (/\ IsTree(h1)
         /\ IsTree(h2)
         /\ HashMapping(read_json_file(objects[h1]).files)
               = HashMapping(read_json_file(objects[h2]).files)) => h1 = h2

\* the commit objects of the store are those that record a parent
IsCommit(h) == "parent" \in DOMAIN read_json_file(objects[h])

C15_ParentIsStoredCommit ==
    \A h \in DOMAIN objects :
        (IsCommit(h) /\ CommitAt(h).parent # None) =>
            /\ CommitAt(h).parent \in DOMAIN objects
            /\ IsCommit(CommitAt(h).parent)

\* the store holds a commit whose parent is itself a commit made by commit()
C15_Witness ==
    \E h \in DOMAIN objects :
        /\ IsCommit(h)
        /\ CommitAt(h).parent \in DOMAIN objects
        /\ IsCommit(CommitAt(h).parent)
        /\ CommitAt(CommitAt(h).parent).parent # None

\* C16: for every commit reachable from the branch head whose parent is
\* not null, the parent is a stored commit whose tree names a tree object
\* present in the Object Store and whose parent is null or a stored
\* commit, also when that parent is the root commit created by init.
C16_ParentTreeIsStored ==
    is_initialized =>
        \A i \in 1..Len(log) :
            log[i].parent # None =>
                /\ log[i].parent \in DOMAIN objects
                /\ IsCommit(log[i].parent)
                /\ CommitAt(log[i].parent).tree \in DOMAIN objects
                /\ IsTree(CommitAt(log[i].parent).tree)
                /\ \/ CommitAt(log[i].parent).parent = None
                   \/ /\ CommitAt(log[i].parent).parent \in DOMAIN objects
                      /\ IsCommit(CommitAt(log[i].parent).parent)

\* C17: the Object Store is append-only: no step removes an object, and no
\* step changes the bytes persisted under a hash that was already stored.
C17_ObjectStoreAppendOnly ==
    [][\A h \in DOMAIN objects :
          /\ h \in DOMAIN objects'
          /\ objects'[h] = objects[h]]_vars

\* C18: a successful commit of a staged set that an earlier commit sealed
\* (the same records for the same paths, in any order) carries the tree
\* hash of that earlier tree and adds exactly one object, its commit
\* object, to the store; every commit stores the staged records as its
\* tree; and the records add makes for two paths whose files hold the same
\* bytes carry the same content hash.
C18_ObjectsDeduplicated ==
    [][/\ (ret'.op = "commit" /\ ret'.val # None) =>
             /\ read_json_file(objects'[ret'.val]).tree \in DOMAIN objects'
             /\ read_json_file(objects'[read_json_file(objects'[ret'.val]).tree]).files = StagedNow
             /\ \A h \in DOMAIN objects :
                   (IsTree(h) /\ SortKeys(read_json_file(objects[h]).files) = SortKeys(StagedNow)) =>
                       /\ read_json_file(objects'[ret'.val]).tree = h
                       /\ ret'.val \notin DOMAIN objects
                       /\ DOMAIN objects' = DOMAIN objects \cup {ret'.val}
       /\ ret'.op = "add" =>
             \A i, j \in 1..Len(ret'.val) :
                 wt[FullPath(ret'.val[i][1])].content = wt[FullPath(ret'.val[j][1])].content
                     => ret'.val[i][2].hash = ret'.val[j][2].hash]_vars

\* a second commit of the same two records has returned: both commits name
\* one tree, the store holds four objects, and the two paths of the tree
\* carry the same content hash
C18_Witness ==
    /\ ret.op = "commit"
    /\ ret.val # None
    /\ Len(log) = 3
    /\ log[1].tree = log[2].tree
    /\ Cardinality(DOMAIN objects) = 4
    /\ Len(TreeKeys(log[1].tree)) = 2
    /\ \A i, j \in 1..2 :
          read_json_file(objects[log[1].tree]).files[i][2].hash
              = read_json_file(objects[log[1].tree]).files[j][2].hash

StoredUser == read_json_file(config).user

\* C20: the author and the committer of a commit carry the author name
\* given to commit when it is not empty, otherwise the user.name stored in
\* the repository's config file, otherwise "Unknown", in whatever process
\* commit runs; the email falls back in the same way, to "unknown@local".
C20_AuthorFallback ==
    [][\A message \in Messages, author_name \in IdentAuthors :
          (commit(message, author_name, EmailOf(author_name)) /\ ret'.val # None) =>
              /\ read_json_file(objects'[ret'.val]).author.name
                    = OrStr(author_name, OrStr(StoredUser.name, "Unknown"))
              /\ read_json_file(objects'[ret'.val]).author.email
                    = OrStr(EmailOf(author_name), OrStr(StoredUser.email, "unknown@local"))
              /\ read_json_file(objects'[ret'.val]).committer
                    = read_json_file(objects'[ret'.val]).author]_vars

\* C21: every commit log() returns carries in its hash field the hash
\* under which it is stored, which is the pointer that led to it (the
\* branch head for the first, the parent of the commit before it for the
\* others); and in the state a successful commit returns in, the value
\* returned is the hash field of the first entry of log().
C21_HashFieldIsName ==
    is_initialized =>
        /\ \A i \in 1..Len(log) :
              /\ log[i].hash \in DOMAIN objects
              /\ CommitAt(log[i].hash) = log[i]
              /\ log[i].hash = IF i = 1 THEN _get_branch_head("main") ELSE log[i - 1].parent
        /\ (ret.op = "commit" /\ ret.val # None) => log[1].hash = ret.val

\* the second commit has returned: log() lists it first under the
\* returned hash, then the first commit, then the root
C21_Witness ==
    /\ ret.op = "commit"
    /\ ret.val # None
    /\ Len(log) = 3
    /\ log[1].hash = ret.val
    /\ log[2].hash = log[1].parent
    /\ log[3].hash = log[2].parent

\* the pointer log() follows to its i-th entry
LogPointer(i) ==
    IF i = 1 THEN _get_branch_head("main") ELSE DictGetOr(log[i - 1], "parent", None)

\* C22: whatever objects have been removed from the store, log() is the
\* chain of stored commits from the branch head down to the first pointer
\* that is null or names a missing object (empty when the head's object is
\* missing); removing the object of the k-th entry cuts log() down to its
\* first k-1 entries, and removing any other object leaves it unchanged.
C22_LogStopsAtMissing ==
    /\ [](is_initialized =>
            /\ \A i \in 1..Len(log) :
                  /\ LogPointer(i) \in DOMAIN objects
                  /\ log[i] = read_json_file(objects[LogPointer(i)])
            /\ LogPointer(Len(log) + 1) \notin DOMAIN objects)
    /\ [][\A h \in DOMAIN objects :
            (is_initialized /\ DeleteObject(h)) =>
                IF \E k \in 1..Len(log) : LogPointer(k) = h
                THEN log' = SubSeq(log, 1, (CHOOSE k \in 1..Len(log) : LogPointer(k) = h) - 1)
                ELSE log' = log]_vars

\* log() was called after two commits, the first of which has been
\* removed from the store, and returned the head commit alone
C22_Witness ==
    /\ ret.op = "log"
    /\ NumCommits = 2
    /\ Len(ret.val) = 1
    /\ ret.val[1].hash = _get_branch_head("main")
    /\ ret.val[1].parent # None
    /\ ret.val[1].parent \notin DOMAIN objects

\* C24: add, commit, status and log called on an initialized repository
\* return a value and never raise, also when the index file is missing or
\* does not parse.
C24_NeverRaises ==
    [][(is_initialized /\ ret'.op \in {"add", "commit", "status", "log"}) =>
          "raised" \notin DOMAIN ret']_vars

\* C26: status and log change none of config, HEAD, index, branch
\* reference, objects and journal; add changes none of them but the index;
\* objects and the branch reference change only in a successful init or a
\* successful commit; HEAD changes only in init; and in every initialized
\* state status() reports branch main.
C26_FrameConditions ==
    /\ [](is_initialized =>
            \A tracked_files \in Enumerations(get_tracked_files) :
                status(tracked_files).branch = "main")
    /\ [][/\ ret'.op \in {"status", "log"} =>
                UNCHANGED <<config, HEAD, index, heads, objects, journal>>
          /\ ret'.op = "add" =>
                UNCHANGED <<config, HEAD, heads, objects, journal>>
          /\ (objects' # objects \/ heads' # heads) =>
                \/ ret'.op = "init" /\ ret'.val = TRUE
                \/ ret'.op = "commit" /\ ret'.val # None
          /\ HEAD' # HEAD => ret'.op = "init"]_vars

\* status has returned branch main after a commit, with an entry staged
\* again
C26_Witness ==
    /\ ret.op = "status"
    /\ is_initialized
    /\ ret.val.branch = "main"
    /\ ret.val.total_staged = 1
    /\ NumCommits = 1

\* the paths that have an entry in the Staging Index
StagedKeys == SeqToSet(DictKeys(StagedNow))

\* C27: in an initialized repository, in whatever process the calls run,
\* add sets the entry of each named existing path to the record of its
\* current content and leaves every other entry as it was; a successful
\* commit empties the index; no other step changes the entries; and
\* status() reports as staged_files and total_staged the entries and their
\* number.
C27_StagingAccumulates ==
    /\ [](is_initialized =>
            \A tracked_files \in Enumerations(get_tracked_files) :
                /\ status(tracked_files).total_staged = Cardinality(StagedKeys)
                /\ status(tracked_files).staged_files = DictKeys(StagedNow))
    /\ [][is_initialized =>
            /\ \A file_paths \in StageLists :
                  add(file_paths) =>
                      /\ StagedKeys' = StagedKeys \cup ExistingOf(file_paths)
                      /\ \A p \in ExistingOf(file_paths) :
                            DictGet(StagedNow', p) = get_file_info(p)
                      /\ \A p \in StagedKeys \ ExistingOf(file_paths) :
                            DictGet(StagedNow', p) = DictGet(StagedNow, p)
            /\ (ret'.op = "commit" /\ ret'.val # None) => StagedNow' = <<>>
            /\ (ret'.op # "add" /\ ~(ret'.op = "commit" /\ ret'.val # None)) =>
                  StagedNow' = StagedNow]_vars

\* add has returned one record in a process other than the one that ran
\* init, and the index holds that entry next to one staged before, whose
\* record is of the file's earlier content
C27_Witness ==
    /\ ret.op = "add"
    /\ is_initialized
    /\ DEFAULT_CONFIG = InitialDefaultConfig
    /\ Len(ret.val) = 1
    /\ Cardinality(StagedKeys) = 2
    /\ \E p \in StagedKeys : DictGet(StagedNow, p) # get_file_info(p)

\* C28: an entry of the Staging Index appears or changes only in an add
\* that finds its path in the working tree, and then it is the record of
\* that file; the deletion of a staged file leaves the index as it was,
\* and status() still lists the entry in staged_files and counts it in
\* total_staged; a successful commit seals every staged entry in its tree,
\* also those whose file is gone.
C28_StaleEntriesKept ==
    [][is_initialized =>
          /\ \A p \in StagedKeys' :
                (p \notin StagedKeys \/ DictGet(StagedNow', p) # DictGet(StagedNow, p)) =>
                    /\ ret'.op = "add"
                    /\ Exists(p)
                    /\ DictGet(StagedNow', p) = get_file_info(p)
          /\ (ret'.op = "env" /\ \E p \in StagedKeys : Exists(p) /\ ~Exists(p)') =>
                /\ StagedNow' = StagedNow
                /\ \A tracked_files \in Enumerations(get_tracked_files') :
                      /\ status(tracked_files)'.staged_files = DictKeys(StagedNow)
                      /\ status(tracked_files)'.total_staged = Len(StagedNow)
          /\ (ret'.op = "commit" /\ ret'.val # None) =>
                read_json_file(objects'[read_json_file(objects'[ret'.val]).tree]).files
                    = StagedNow]_vars

\* a commit has returned whose tree holds the entry of a.txt, staged
\* before the file was deleted
C28_Witness ==
    /\ ret.op = "commit"
    /\ ret.val # None
    /\ ~Exists("a.txt")
    /\ "a.txt" \in SeqToSet(TreeKeys(CommitAt(ret.val).tree))

\* C30: a successful init stores in the repository's config exactly the
\* user_name and user_email it was given (empty when omitted), whatever
\* the process did before, and leaves the process-wide DEFAULT_CONFIG as
\* it was.
C30_InitStoresGivenIdentity ==
    [][\A user_name \in IdentNames :
          (init(user_name, EmailOf(user_name)) /\ ret'.val = TRUE) =>
              /\ StoredUser' = [name |-> user_name, email |-> EmailOf(user_name)]
              /\ DEFAULT_CONFIG' = DEFAULT_CONFIG]_vars

\* the commit of process p has returned a hash
Committed(p) ==
    calls[p].op = "commit" /\ calls[p].pc = "returned" /\ calls[p].val # None

\* the hashes of the commits log() returns
LogHashes == {log[i].hash : i \in 1..Len(log)}

\* C23: when the commits of two processes have interleaved so that both
\* read the same index and the same parent, both have returned a hash,
\* the two hashes differ, both commit objects are stored, the branch head
\* is one of the two, and the other is not among the commits log()
\* returns: its update is lost.
C23_LostUpdate ==
    (/\ \A p \in Procs : calls[p].op = "commit" /\ calls[p].pc = "returned"
     /\ calls[1].commit_data # <<>>
     /\ calls[2].commit_data # <<>>
     /\ calls[1].tree_hash = calls[2].tree_hash
     /\ calls[1].commit_data.parent = calls[2].commit_data.parent) =>
        /\ Committed(1)
        /\ Committed(2)
        /\ calls[1].val # calls[2].val
        /\ {calls[1].val, calls[2].val} \subseteq DOMAIN objects
        /\ _get_branch_head("main") \in {calls[1].val, calls[2].val}
        /\ Cardinality(LogHashes \cap {calls[1].val, calls[2].val}) = 1
        /\ Len(log) = 2

\* both commits have returned a hash for the same staged entry and the
\* same parent; the branch head is the commit of process 1 and the commit
\* of process 2 is stored but not reachable from it
C23_Witness ==
    /\ Committed(1)
    /\ Committed(2)
    /\ calls[1].tree_hash = calls[2].tree_hash
    /\ calls[1].commit_data.parent = calls[2].commit_data.parent
    /\ _get_branch_head("main") = calls[1].val
    /\ calls[2].val \in DOMAIN objects
    /\ calls[2].val \notin LogHashes
    /\ StagedNow = <<>>

\* the positions of commit after its tree object has been stored
AfterTree ==
    {"read_parent", "write_commit", "write_ref", "flush_ref", "write_index", "write_journal"}

\* C25: a commit writes the tree object, then the commit object, then the
\* branch reference, then the cleared index; and when it is interrupted
\* after any of these writes, the branch reference names a stored commit
\* whose tree is stored, and the index is not empty unless the branch
\* reference names the new commit.
C25_InterruptedCommit ==
    [][\A p \in Procs :
          /\ commit_write_commit(p) => calls[p].tree_hash \in DOMAIN objects
          /\ commit_open_ref(p) => calls[p].commit_data.hash \in DOMAIN objects
          /\ commit_write_index(p) =>
                _get_branch_head("main") = calls[p].commit_data.hash
          /\ (Interrupt(p) /\ calls[p].pc \in AfterTree) =>
                /\ _get_branch_head("main") \in DOMAIN objects
                /\ IsCommit(_get_branch_head("main"))
                /\ CommitAt(_get_branch_head("main")).tree \in DOMAIN objects
                /\ StagedNow = <<>> =>
                      _get_branch_head("main") = calls[p].commit_data.hash]_vars

\* a part of the repository that init creates is missing
Incomplete ==
    \/ HEAD = NoFile
    \/ index = NoFile
    \/ heads["main"] = NoFile
    \/ _get_branch_head("main") \notin DOMAIN objects

\* C29: init is all-or-nothing: when init fails partway and returns false,
\* is_initialized() is not true with HEAD, the index, or the main reference
\* with its root commit missing; and an init call is not turned away while
\* one of them is missing, so it can still complete the initialization.
C29_InitAllOrNothing ==
    [][\A p \in Procs :
          /\ init_fail(p) => ~(is_initialized' /\ Incomplete')
          /\ \A user_name \in UserNames :
                (init_begin(p, user_name, EmailOf(user_name)) /\ Incomplete)
                    => calls'[p].pc # "returned"]_vars

\* the call that just returned was a successful init / a successful commit
InitSucceeded == ret.op = "init" /\ ret.val = TRUE

CommitSucceeded == ret.op = "commit" /\ ret.val # None

\* C35: the journal is append-only and mirrors the successful operations:
\* a successful init appends one init entry; a successful commit appends
\* exactly one commit entry, whose commit_hash is the returned hash and
\* whose files_count is the number of paths in the committed tree; every
\* other call leaves the journal as it is.
C35_JournalMirrors ==
    [][/\ Len(journal') >= Len(journal)
       /\ SubSeq(journal', 1, Len(journal)) = journal
       /\ InitSucceeded' =>
             /\ Len(journal') = Len(journal) + 1
             /\ journal'[Len(journal')].action = "init"
       /\ CommitSucceeded' =>
             /\ Len(journal') = Len(journal) + 1
             /\ journal'[Len(journal')].action = "commit"
             /\ journal'[Len(journal')].commit_hash = ret'.val
             /\ journal'[Len(journal')].files_count =
                   Len(read_json_file(objects'[read_json_file(objects'[ret'.val]).tree]).files)
       /\ ~(InitSucceeded' \/ CommitSucceeded') => journal' = journal]_vars

\* the commits of the Object Store that have no parent
Roots == {h \in DOMAIN objects : IsCommit(h) /\ CommitAt(h).parent = None}

\* C33: once init has completed, exactly one commit with parent null is
\* in the Object Store, the root written by init; and every commit made by
\* commit() has a parent, which is a stored commit.
C33_OneRoot ==
    /\ [](is_initialized =>
            /\ Cardinality(Roots) = 1
            /\ \A h \in Roots : /\ CommitAt(h).message = "Initial commit"
                                /\ CommitAt(h).author.name = "ModelSync")
    /\ [][CommitSucceeded' =>
             /\ read_json_file(objects'[ret'.val]).parent # None
             /\ read_json_file(objects'[ret'.val]).parent \in DOMAIN objects
             /\ ret'.val \notin Roots']_vars

\* two commits have been made on top of the root
C33_Witness ==
    /\ CommitSucceeded
    /\ NumCommits = 2
    /\ Cardinality({h \in DOMAIN objects : IsCommit(h)}) = 3
    /\ Cardinality(Roots) = 1

\* C34: every record in the index carries the content hash of a regular
\* file's bytes, and every record add returns is one of a regular file:
\* a path that exists but is a directory (whose computed hash is the empty
\* string) is never staged.
C34_StagedAreFiles ==
    /\ [](\A i \in 1..Len(StagedNow) :
             /\ StagedNow[i][2].hash # EmptyStr
             /\ IsHexDigest(StagedNow[i][2].hash)
             /\ StagedNow[i][2].is_file
             /\ ~StagedNow[i][2].is_dir)
    /\ [][(ret'.op = "add" /\ "val" \in DOMAIN ret') =>
             \A i \in 1..Len(ret'.val) : ret'.val[i][2].is_file]_vars

\* the commit of p has written its tree and cleared the index
Cleared(p) ==
    /\ calls[p].op = "commit"
    /\ calls[p].pc \in {"write_journal", "returned"}
    /\ calls[p].tree_hash # None

\* C31: with an add interleaved with a commit, file access by file access:
\* when the commit clears the index after an add that read the same index
\* has returned, the records the add returned for new paths are neither in
\* the committed tree nor in the index; and when an add writes the index
\* it read before the commit cleared it, the entries sealed into the
\* commit are back in the index.
C31_AddCommitRace ==
    [][/\ (/\ commit_write_index(Writer)
           /\ calls[Adder].op = "add" /\ calls[Adder].pc = "returned"
           /\ calls[Adder].read = calls[Writer].index)
          => \A k \in SeqToSet(DictKeys(calls[Adder].val)) :
                ~HasKey(calls[Writer].index.files, k) =>
                    /\ k \notin SeqToSet(TreeKeys(calls[Writer].tree_hash))
                    /\ k \notin SeqToSet(DictKeys(StagedNow'))
       /\ (/\ add_write_index(Adder)
           /\ Cleared(Writer)
           /\ StagedNow = <<>>)
          => \A k \in SeqToSet(TreeKeys(calls[Writer].tree_hash)) :
                HasKey(IndexFiles(calls[Adder].read), k) =>
                    /\ HasKey(StagedNow', k)
                    /\ DictGet(StagedNow', k) =
                          DictGet(read_json_file(objects[calls[Writer].tree_hash]).files, k)]_vars

\* both calls have returned; the index is empty, and the record add
\* returned for c.bin is not in the tree of the commit
C31_Witness ==
    /\ Committed(Writer)
    /\ calls[Adder].op = "add" /\ calls[Adder].pc = "returned"
    /\ HasKey(calls[Adder].val, "c.bin")
    /\ StagedNow = <<>>
    /\ SeqToSet(TreeKeys(calls[Writer].tree_hash)) = {"a.txt"}
    /\ \A h \in DOMAIN objects : IsTree(h) => "c.bin" \notin SeqToSet(TreeKeys(h))

\* both calls have returned; a.txt is sealed in the tree of the commit,
\* and it is in the index again with the record that was sealed
C31_SealedBack ==
    /\ Committed(Writer)
    /\ calls[Adder].op = "add" /\ calls[Adder].pc = "returned"
    /\ SeqToSet(TreeKeys(calls[Writer].tree_hash)) = {"a.txt"}
    /\ calls[Writer].commit_data.tree = calls[Writer].tree_hash
    /\ DictKeys(StagedNow) = <<"a.txt", "c.bin">>

\* the commit of p has built its commit dict
HasCommitData(p) ==
    /\ calls[p].op = "commit"
    /\ calls[p].tree_hash # None
    /\ calls[p].pc \notin {"read_index", "write_tree", "read_parent"}

\* the branch head, and with a commit of Writer under way the head before
\* it and the head after it
HeadsAround ==
    {_get_branch_head("main")}
        \cup (IF HasCommitData(Writer)
              THEN {calls[Writer].commit_data.parent, calls[Writer].commit_data.hash}
              ELSE {})

\* C32: a log() that runs while a commit runs, and is not turned away,
\* returns a complete history, the one before the commit or the one after
\* it: it is not empty, it starts at the head before or after the commit,
\* each commit is followed by its parent, and it ends at the root.
C32_LogAtomic ==
    [][\A p \in Procs :
          (log_walk(p) /\ calls'[p].pc = "returned") =>
              LET commits == calls'[p].val
              IN  /\ commits # <<>>
                  /\ commits[1].hash \in HeadsAround
                  /\ \A i \in 1..(Len(commits) - 1) : commits[i].parent = commits[i + 1].hash
                  /\ commits[Len(commits)].parent = None]_vars

====
